---- MODULE Spec2Model ----
(***************************************************************************)
(* The hessian2 wire codec of dubbo-go (package hessian2, HessianCodec):   *)
(* ReadHeader, ReadBody, ReadAttachments and Write over a bufio.Reader, in *)
(* buffered (peek/discard) and streaming (blocking read) mode.             *)
(*                                                                         *)
(* Bytes are integers 0..255.  A Go int that may exceed 31 bits (BodyLen)  *)
(* is a pair <<hi, lo>> standing for hi * 2^16 + lo with lo in 0..65535;   *)
(* the 64-bit request id is four 16-bit limbs, the top one signed.         *)
(***************************************************************************)
EXTENDS Integers, Sequences, FiniteSets, TLC

(* ------------------------------ bounds -------------------------------- *)
\* longest frame body put on the wire
MaxBodyLen == 2
\* how much larger than bufio's minimum the second reader size is
BufExtra == 4
\* how many bytes reach the source at a time on a slow connection
ChunkLen == 6

(* ----------------------- constants of the package --------------------- *)
PackageError == 1
PackageRequest == 2
PackageResponse == 4
PackageHeartbeat == 8
PackageRequest_TwoWay == 16
PackageResponse_Exception == 32
PackageType_BitSize == 47

HEADER_LENGTH == 16
MAGIC_HIGH == 218
MAGIC_LOW == 187
SERIAL_MASK == 31
FLAG_EVENT == 32
FLAG_TWOWAY == 64
FLAG_REQUEST == 128
Zero == 0
Response_OK == 20

\* bufio.minReadBufferSize: NewReaderSize never builds a smaller buffer
MinReadBufferSize == 16

(* ----------------------------- bit helpers ---------------------------- *)
RECURSIVE BitAnd(_, _)
BitAnd(a, b) ==
    IF a = 0 \/ b = 0 THEN 0
    ELSE (a % 2) * (b % 2) + 2 * BitAnd(a \div 2, b \div 2)

BitOr(a, b) == a + b - BitAnd(a, b)

Min(a, b) == IF a < b THEN a ELSE b

Take(s, n) == SubSeq(s, 1, Min(n, Len(s)))
Drop(s, n) == SubSeq(s, Min(n, Len(s)) + 1, Len(s))

Zeros(n) == [i \in 1..n |-> 0]

(* ------------------------- wide integers (Go int) --------------------- *)
\* int(binary.BigEndian.Uint32(b)) where int has `bits` bits: 64 bits hold
\* every value, 32 bits wrap the values from 2^31 on to negative ones
BigEndianUint32(b, bits) ==
    LET top == b[1] * 256 + b[2]
    IN  <<IF bits = 32 /\ top >= 32768 THEN top - 65536 ELSE top,
          b[3] * 256 + b[4]>>

\* int64(binary.BigEndian.Uint64(b)): the top limb carries the sign
BigEndianInt64(b) ==
    LET top == b[1] * 256 + b[2]
    IN  <<IF top >= 32768 THEN top - 65536 ELSE top,
          b[3] * 256 + b[4], b[5] * 256 + b[6], b[7] * 256 + b[8]>>

WideNeg(w) == w[1] < 0
\* k < w, for a small non-negative k
SmallLess(k, w) == w[1] > 0 \/ (w[1] = 0 /\ k < w[2])
WideOf(k) == <<0, k>>
\* the value of w when it is known to be small
SmallOf(w) == w[2]

(* --------------------------- frames on the wire ----------------------- *)
\* request ids put on the wire: zero, and one with the sign bit set
RequestIds1 == <<128, 0, 0, 0, 0, 0, 1, 2>>
RequestIds == {Zeros(8), RequestIds1}

\* first body bytes: a hessian string, a hessian int, an undecodable tag
BodyTags == {0, 144, 240}

FlagBytes ==
    {serial + ev * FLAG_EVENT + tw * FLAG_TWOWAY + rq * FLAG_REQUEST :
        serial \in {0, 2}, ev \in {0, 1}, tw \in {0, 1}, rq \in {0, 1}}

StatusBytes == {Response_OK, 40}

MakeHeader(m0, m1, flags, status, id, len) ==
    <<m0, m1, flags, status>> \o id \o <<0, 0, 0, len>>

\* a header whose body length field has the top bit set, and no body after it
HugeLenFrames ==
    {<<MAGIC_HIGH, MAGIC_LOW, fl, Response_OK>> \o Zeros(8) \o <<128, 0, 0, 1>> :
        fl \in {2, 194}}

MakeBody(len, tag) == [i \in 1..len |-> tag + i - 1]

MakeFrame(m0, m1, flags, status, id, len, tag) ==
    MakeHeader(m0, m1, flags, status, id, len) \o MakeBody(len, tag)

\* frames with good magic: every flag byte, status and length
GoodFrames ==
    {MakeFrame(MAGIC_HIGH, MAGIC_LOW, fl, st, Zeros(8), len, 0) :
        fl \in FlagBytes, st \in StatusBytes, len \in 0..MaxBodyLen}

\* frames that vary what GoodFrames keeps fixed: magic, request id, body tag
OddFrames ==
    {MakeFrame(m0, m1, fl, Response_OK, id, 1, 0) :
        m0 \in {MAGIC_HIGH, 0}, m1 \in {MAGIC_LOW, 0}, fl \in {2, 130, 194},
        id \in RequestIds}
    \cup
    {MakeFrame(MAGIC_HIGH, MAGIC_LOW, fl, st, Zeros(8), 1, tag) :
        fl \in {2, 34, 130}, st \in {0, Response_OK, 40}, tag \in BodyTags}

Frames == GoodFrames \cup OddFrames \cup HugeLenFrames

\* two frames on one connection
FramePairs ==
    {MakeFrame(MAGIC_HIGH, MAGIC_LOW, f, st, Zeros(8), MaxBodyLen, 0)
       \o MakeFrame(MAGIC_HIGH, MAGIC_LOW, g, Response_OK, Zeros(8), 1, 0) :
        f \in {2, 34, 194}, st \in {Response_OK, 40}, g \in {2, 194}}

\* connections whose bytes are all at the source when the session starts
Wires == Frames \cup FramePairs

\* connections whose bytes arrive while the session reads
SlowWires ==
    {MakeFrame(MAGIC_HIGH, MAGIC_LOW, 194, Response_OK, RequestIds1, MaxBodyLen, 0),
     MakeFrame(MAGIC_HIGH, MAGIC_LOW, 2, 40, Zeros(8), 1, 0),
     MakeFrame(MAGIC_HIGH, MAGIC_LOW, 2, Response_OK, Zeros(8), MaxBodyLen, 0)
       \o MakeFrame(MAGIC_HIGH, MAGIC_LOW, 194, Response_OK, Zeros(8), 1, 0)}

(* -------------------------------- state ------------------------------- *)
VARIABLES
    intSize,    \* bits of a Go int on the build that runs (strconv.IntSize)
    stream,     \* HessianCodec.stream
    pkgType,    \* HessianCodec.pkgType
    bodyLen,    \* HessianCodec.bodyLen (wide)
    bufSize,    \* size of the bufio.Reader's buffer
    rbuf,       \* bytes buffered in the bufio.Reader, not yet consumed
    net,        \* bytes the underlying source can deliver now
    future,     \* bytes that have not arrived at the source yet
    wire,       \* everything the connection carries (ghost, never changes)
    header,     \* the caller's DubboHeader
    pc,         \* "idle", or where a streaming call is blocked
    sbuf,       \* bytes the blocked streaming call has read so far
    sarg,       \* the rspObj of the blocked ReadBody
    waitAt,     \* where the body starts that a header read found not yet
                \* buffered and no call has touched since (ghost), else -1
    last        \* what the last finished call did and returned

vars == <<intSize, stream, pkgType, bodyLen, bufSize, rbuf, net, future, wire, header,
          pc, sbuf, sarg, waitAt, last>>

\* number of bytes consumed from h.reader so far
Pos == Len(wire) - Len(rbuf) - Len(net) - Len(future)

EmptyHeader ==
    [SerialID |-> 0, Type |-> 0, ID |-> <<0, 0, 0, 0>>, BodyLen |-> WideOf(0),
     ResponseStatus |-> 0]

NoRsp == [kind |-> "nil", value |-> <<>>, exception |-> <<>>]

NoCall ==
    [op |-> "none", err |-> "nil", pos0 |-> 0, buffered0 |-> 0, avail0 |-> 0,
     buf |-> <<>>, got |-> 0, passed |-> FALSE, path |-> "none", rsp |-> NoRsp,
     packer |-> "none", arg |-> 0, fresh |-> FALSE, waited |-> FALSE, text |-> <<>>,
     seq |-> 0, mid |-> FALSE]

(* ---------------------------- bufio.Reader ---------------------------- *)
\* b.Buffered()
Buffered == Len(rbuf)

\* b.Peek(n), 0 <= n: fill until n bytes are buffered, the buffer is full or
\* the source fails; the bytes stay buffered.  A source with nothing to
\* deliver fails the read (EOF, or the deadline of the connection).
RECURSIVE Peek(_, _, _)
Peek(rb, nt, n) ==
    IF Len(rb) < n /\ Len(rb) < bufSize
    THEN IF nt = <<>>
         THEN [rbuf |-> rb, net |-> nt, err |-> "io", data |-> rb]
         ELSE LET k == Min(bufSize - Len(rb), Len(nt))
              IN  Peek(rb \o Take(nt, k), Drop(nt, k), n)
    ELSE IF n > bufSize
         THEN [rbuf |-> rb, net |-> nt, err |-> "ErrBufferFull", data |-> rb]
         ELSE [rbuf |-> rb, net |-> nt, err |-> "nil", data |-> Take(rb, n)]

\* b.Read(p) with len(p) = k: at most one read of the source, and none when
\* bytes are buffered; a read of at least the buffer size bypasses the buffer
Read(rb, nt, k) ==
    IF k = 0 THEN [rbuf |-> rb, net |-> nt, err |-> "nil", data |-> <<>>]
    ELSE IF rb # <<>>
    THEN [rbuf |-> Drop(rb, k), net |-> nt, err |-> "nil", data |-> Take(rb, k)]
    ELSE IF nt = <<>>
    THEN [rbuf |-> rb, net |-> nt, err |-> "io", data |-> <<>>]
    ELSE IF k >= bufSize
    THEN [rbuf |-> rb, net |-> Drop(nt, k), err |-> "nil", data |-> Take(nt, k)]
    ELSE LET got == Take(nt, bufSize)
         IN  [rbuf |-> Drop(got, k), net |-> Drop(nt, bufSize), err |-> "nil",
              data |-> Take(got, k)]

(* ------------------------- ReadHeader: decoding ----------------------- *)
\* the magic test of ReadHeader: TRUE when the package is rejected
MagicRejected(buf) == buf[1] # MAGIC_HIGH /\ buf[2] # MAGIC_LOW

\* buf[2] & mask
FlagOf(b, mask) == BitAnd(b, mask)

\* SerialOf without the mask
SerialOfWholeByte(b) == b

\* header.SerialID = buf[2] & SERIAL_MASK
SerialOf(b) == BitAnd(b, SERIAL_MASK)

\* DecodeType with the two-way bit read on both branches
DecodeTypeTwoWayAnywhere(buf, hdr) ==
    LET t1 == IF FlagOf(buf[3], FLAG_EVENT) # Zero
              THEN BitOr(hdr.Type, PackageHeartbeat) ELSE hdr.Type
        t2 == IF FlagOf(buf[3], FLAG_TWOWAY) # Zero
              THEN BitOr(t1, PackageRequest_TwoWay) ELSE t1
    IN  IF FlagOf(buf[3], FLAG_REQUEST) # Zero
        THEN BitOr(t2, PackageRequest)
        ELSE LET t3 == BitOr(t2, PackageResponse)
             IN  IF buf[4] # Response_OK
                 THEN BitOr(t3, PackageResponse_Exception) ELSE t3

\* header.Type after the flag byte and the status byte are decoded into it
DecodeType(buf, hdr) ==
    LET t1 == IF FlagOf(buf[3], FLAG_EVENT) # Zero
              THEN BitOr(hdr.Type, PackageHeartbeat) ELSE hdr.Type
    IN  IF FlagOf(buf[3], FLAG_REQUEST) # Zero
        THEN LET t2 == BitOr(t1, PackageRequest)
             IN  IF FlagOf(buf[3], FLAG_TWOWAY) # Zero
                 THEN BitOr(t2, PackageRequest_TwoWay) ELSE t2
        ELSE LET t2 == BitOr(t1, PackageResponse)
             IN  IF buf[4] # Response_OK
                 THEN BitOr(t2, PackageResponse_Exception) ELSE t2

\* header.ResponseStatus: captured from byte 3 on the response branch only
DecodeStatus(buf, hdr) ==
    IF FlagOf(buf[3], FLAG_REQUEST) # Zero THEN hdr.ResponseStatus ELSE buf[4]

\* the part of ReadHeader after the 16 bytes are in buf: the header as the
\* call leaves it, the error of the validation, and whether the call went on
\* to record type and body length on the session
DecodeHeader(buf, hdr) ==
    IF MagicRejected(buf)
    THEN [header |-> hdr, err |-> "IllegalPackage", passed |-> FALSE]
    ELSE LET h1 == [hdr EXCEPT !.SerialID = SerialOf(buf[3])]
         IN  IF h1.SerialID = Zero
             THEN [header |-> h1, err |-> "SerialID", passed |-> FALSE]
             ELSE LET h2 == [h1 EXCEPT
                                !.Type = DecodeType(buf, hdr),
                                !.ResponseStatus = DecodeStatus(buf, hdr),
                                !.ID = BigEndianInt64(SubSeq(buf, 5, 12)),
                                !.BodyLen = BigEndianUint32(SubSeq(buf, 13, 16), intSize)]
                  IN  IF WideNeg(h2.BodyLen)
                      THEN [header |-> h2, err |-> "IllegalPackage", passed |-> FALSE]
                      ELSE [header |-> h2, err |-> "nil", passed |-> TRUE]

(* --------------------- decoding collaborators ------------------------- *)
\* hessian Decoder.Decode on the body: a value, told apart by its first byte
\* (a string, some other value), or a decode failure
HessianDecode(buf) ==
    IF buf = <<>> THEN [err |-> "decode", kind |-> "none", value |-> <<>>]
    ELSE IF buf[1] < 32 THEN [err |-> "nil", kind |-> "string", value |-> buf]
    ELSE IF buf[1] \in 128..191 THEN [err |-> "nil", kind |-> "other", value |-> buf]
    ELSE [err |-> "decode", kind |-> "none", value |-> <<>>]

\* unpackRequestBody(decoder, rspObj): the arguments go into the container
UnpackRequestBody(buf, rsp) ==
    LET d == HessianDecode(buf)
    IN  IF d.err # "nil" THEN [err |-> "decode", rsp |-> rsp]
        ELSE [err |-> "nil", rsp |-> [rsp EXCEPT !.value = <<"args", d.value>>]]

\* unpackResponseBody(decoder, rspObj): the result goes into the container
UnpackResponseBody(buf, rsp) ==
    LET d == HessianDecode(buf)
    IN  IF d.err # "nil" THEN [err |-> "decode", rsp |-> rsp]
        ELSE [err |-> "nil", rsp |-> [rsp EXCEPT !.value = <<"result", d.value>>]]

(* ------------------------ ReadBody: the dispatch ---------------------- *)
\* the result containers a caller passes: none, a *DubboResponse, or
\* something that is not response-shaped (the argument list of a request)
RspObjs == {"nil", "response", "args"}

NewRsp(kind) == [kind |-> kind, value |-> <<>>, exception |-> <<>>]

\* DispatchPath switching on h.pkgType without the mask
DispatchPathUnmasked(t) ==
    IF t \in {PackageResponse + PackageHeartbeat + PackageResponse_Exception,
               PackageResponse + PackageResponse_Exception}
    THEN "exception"
    ELSE IF t \in {PackageRequest + PackageHeartbeat, PackageResponse + PackageHeartbeat}
    THEN "heartbeat"
    ELSE IF t = PackageRequest THEN "request"
    ELSE IF t = PackageResponse THEN "response"
    ELSE "default"

\* which case of the switch on h.pkgType & PackageType_BitSize is taken
DispatchPath(t) ==
    LET key == BitAnd(t, PackageType_BitSize)
    IN  IF key \in {PackageResponse + PackageHeartbeat + PackageResponse_Exception,
                    PackageResponse + PackageResponse_Exception}
        THEN "exception"
        ELSE IF key \in {PackageRequest + PackageHeartbeat,
                         PackageResponse + PackageHeartbeat}
        THEN "heartbeat"
        ELSE IF key = PackageRequest THEN "request"
        ELSE IF key = PackageResponse THEN "response"
        ELSE "default"

\* IsResponseShaped taking any supplied container for a response
IsResponseShapedAnySlot(kind) == kind # "nil"

\* rsp, ok := rspObj.(*DubboResponse)
IsResponseShaped(kind) == kind = "response"

\* the switch of ReadBody on the acquired body: the error returned, the
\* decoder that ran and the caller's container afterwards
Dispatch(buf, t, kind) ==
    LET path == DispatchPath(t)
        rsp == NewRsp(kind)
    IN  IF path = "exception"
        THEN LET d == HessianDecode(buf)
             IN  IF d.err # "nil"
                 THEN [err |-> "decode", path |-> "exception", rsp |-> rsp,
                       text |-> <<>>]
                 ELSE IF d.kind # "string"
                 THEN [err |-> "panic", path |-> "exception", rsp |-> rsp,
                       text |-> <<>>]
                 ELSE IF ~IsResponseShaped(kind)
                 THEN [err |-> "JavaException", path |-> "exception", rsp |-> rsp,
                       text |-> <<"java exception", d.value>>]
                 ELSE [err |-> "nil", path |-> "exception", text |-> <<>>,
                       rsp |-> [rsp EXCEPT !.exception = <<"java exception", d.value>>]]
        ELSE IF path = "request" /\ kind # "nil"
        THEN LET u == UnpackRequestBody(buf, rsp)
             IN  [err |-> u.err, path |-> "request", rsp |-> u.rsp, text |-> <<>>]
        ELSE IF path = "response" /\ kind # "nil"
        THEN LET u == UnpackResponseBody(buf, rsp)
             IN  [err |-> u.err, path |-> "response", rsp |-> u.rsp, text |-> <<>>]
        ELSE [err |-> "nil", path |-> "none", rsp |-> rsp, text |-> <<>>]

(* ------------------- ReadAttachments: the dispatch -------------------- *)
\* what a decoder built by hessian.NewDecoderWithSkip yields on the body
HessianDecodeWithSkip(buf) == HessianDecode(buf)

\* the []any of 7 slots that unpackRequestBody fills from a skipping
\* decoder: the attachment map is the last positional field
RequestFields(v) ==
    [i \in 1..7 |-> IF i = 7 THEN <<"attachments", v>> ELSE <<"skipped", i>>]

\* the DubboResponse that unpackResponseBody fills from a skipping decoder
ResponseFields(v) ==
    [RspObj |-> <<"skipped">>, Exception |-> <<>>, Attachments |-> <<"attachments", v>>]

\* AttachmentsPath switching on h.pkgType without the mask
AttachmentsPathUnmasked(t) ==
    IF t = PackageRequest THEN "request"
    ELSE IF t = PackageResponse THEN "response"
    ELSE "none"

\* which case of the switch of ReadAttachments is taken
AttachmentsPath(t) ==
    LET key == BitAnd(t, PackageType_BitSize)
    IN  IF key = PackageRequest THEN "request"
        ELSE IF key = PackageResponse THEN "response"
        ELSE "none"

\* the switch of ReadAttachments on the acquired body: the error, the
\* decoder that ran and the map returned (<<>> for nil)
Attachments(buf, t) ==
    LET path == AttachmentsPath(t)
        d == HessianDecodeWithSkip(buf)
    IN  IF path = "request"
        THEN IF d.err # "nil"
             THEN [err |-> "decode", path |-> "request", text |-> <<>>]
             ELSE [err |-> "nil", path |-> "request",
                   text |-> RequestFields(d.value)[7]]
        ELSE IF path = "response"
        THEN IF d.err # "nil"
             THEN [err |-> "decode", path |-> "response", text |-> <<>>]
             ELSE [err |-> "nil", path |-> "response",
                   text |-> ResponseFields(d.value).Attachments]
        ELSE [err |-> "nil", path |-> "none", text |-> <<>>]

(* -------------------------------- Write ------------------------------- *)
\* WriteSelect testing single bits of the type
WriteSelectByBit(type, status) ==
    IF BitAnd(type, PackageHeartbeat) # 0
    THEN IF status = Zero THEN "packRequest" ELSE "packResponse"
    ELSE IF BitAnd(type, PackageRequest + PackageRequest_TwoWay) # 0 THEN "packRequest"
    ELSE IF BitAnd(type, PackageResponse) # 0 THEN "packResponse"
    ELSE "none"

\* the packer Write hands the header to, "none" for the default case
WriteSelect(type, status) ==
    IF type = PackageHeartbeat
    THEN IF status = Zero THEN "packRequest" ELSE "packResponse"
    ELSE IF type \in {PackageRequest, PackageRequest_TwoWay} THEN "packRequest"
    ELSE IF type = PackageResponse THEN "packResponse"
    ELSE "none"

(* ------------------------------- actions ------------------------------ *)
\* the three constructors, with the arguments callers give the custom ones
Constructors ==
    {[stream |-> FALSE, pkgType |-> 0, bodyLen |-> 0],
     [stream |-> FALSE, pkgType |-> PackageRequest, bodyLen |-> 1],
     [stream |-> TRUE, pkgType |-> 0, bodyLen |-> 0],
     [stream |-> TRUE, pkgType |-> PackageResponse, bodyLen |-> ChunkLen + 1]}

\* the widths of int the Go compiler has
IntSizes == {32, 64}

\* The width of int shows only in a length of 2^31 or more: the 32-bit build
\* is explored on the connections that carry one.
Init ==
    /\ \/ wire \in Wires /\ net = wire /\ future = <<>>
       \/ wire \in SlowWires /\ net = <<>> /\ future = wire
    /\ intSize \in IF wire \in HugeLenFrames THEN IntSizes ELSE {64}
    /\ \E c \in Constructors :
          /\ stream = c.stream
          /\ pkgType = c.pkgType
          /\ bodyLen = WideOf(c.bodyLen)
    /\ bufSize \in {MinReadBufferSize, MinReadBufferSize + BufExtra}
    /\ rbuf = <<>>
    /\ header = EmptyHeader
    /\ pc = "idle"
    /\ sbuf = <<>>
    /\ sarg = "nil"
    /\ waitAt = -1
    /\ last = NoCall

\* the next bytes of the connection reach the source
Arrive ==
    /\ future # <<>>
    /\ net' = net \o Take(future, ChunkLen)
    /\ future' = Drop(future, ChunkLen)
    /\ UNCHANGED <<intSize, stream, pkgType, bodyLen, bufSize, rbuf, wire, header, pc,
                   sbuf, sarg, waitAt, last>>

\* a call that starts now.  seq and mid (ghost) follow the caller's
\* discipline: seq frames were read by a successful ReadHeader each followed
\* by a ReadBody or ReadAttachments that got past the acquisition, with every
\* byte at the source at each call, and mid tells that the header of the
\* next frame was read as well; seq is -1 once a call broke the discipline.
StartCall(op) ==
    LET inOrder == /\ future = <<>>
                   /\ last.seq >= 0
                   /\ op = "Write" \/ ((op = "ReadHeader") <=> ~last.mid)
    IN  [NoCall EXCEPT !.op = op, !.pos0 = Pos, !.buffered0 = Buffered,
                       !.avail0 = Len(rbuf) + Len(net), !.waited = (waitAt = Pos),
                       !.seq = IF inOrder THEN last.seq ELSE -1,
                       !.mid = inOrder /\ last.mid]

\* the ghost after a call that is not a step of the discipline
Broken(call) == [call EXCEPT !.seq = -1, !.mid = FALSE]

\* the ghost after a successful ReadHeader
HeaderDone(call) ==
    IF call.seq >= 0 /\ ~call.mid THEN [call EXCEPT !.mid = TRUE] ELSE Broken(call)

\* the ghost after a ReadBody or ReadAttachments that acquired the body
BodyDone(call) ==
    IF call.seq >= 0 /\ call.mid
    THEN [call EXCEPT !.seq = @ + 1, !.mid = FALSE]
    ELSE Broken(call)

\* BodyShort with <= for <
BodyShortOrEqual(buffered, len) == SmallLess(buffered, len) \/ len = WideOf(buffered)

\* h.reader.Buffered() < h.bodyLen, the test of ReadHeader and of ReadBody
BodyShort(buffered, len) == SmallLess(buffered, len)

\* SessionType keeping the bits of the dispatch mask only
SessionTypeMasked(hdr) == BitAnd(hdr.Type, PackageType_BitSize)

\* h.pkgType = header.Type
SessionType(hdr) == hdr.Type

\* BodyNotEnoughReported in either mode
BodyNotEnoughReportedAnyMode(short, streaming) == short

\* the last test of ReadHeader: h.reader.Buffered() < h.bodyLen && !h.stream
BodyNotEnoughReported(short, streaming) == short /\ ~streaming

\* DiscardBody leaving the body in the reader
DiscardBodyNever(rb, n) == rb

\* the reader's buffer after h.reader.Discard(h.bodyLen)
DiscardBody(rb, n) == Drop(rb, n)

\* DiscardHeader put off until the header is validated
DiscardHeaderLater(rb) == rb

\* the reader's buffer after h.reader.Discard(HEADER_LENGTH)
DiscardHeader(rb) == Drop(rb, HEADER_LENGTH)

\* ReadHeader from the validation on, with the 16-byte buf of which `got`
\* bytes came from the source, and the reader as rb/nt once buf was taken
FinishHeader(call, buf, got, hdr, rb, nt) ==
    LET d == DecodeHeader(buf, hdr)
    IN  /\ header' = d.header
        /\ rbuf' = rb
        /\ net' = nt
        /\ pc' = "idle"
        /\ sbuf' = <<>>
        /\ IF d.passed
           THEN /\ pkgType' = SessionType(d.header)
                /\ bodyLen' = d.header.BodyLen
                /\ IF BodyNotEnoughReported(BodyShort(Len(rb), d.header.BodyLen), stream)
                   THEN /\ last' = [Broken(call) EXCEPT !.buf = buf, !.got = got,
                                       !.passed = TRUE, !.err = "BodyNotEnough"]
                        /\ waitAt' = call.pos0 + HEADER_LENGTH
                   ELSE /\ last' = [HeaderDone(call) EXCEPT !.buf = buf, !.got = got,
                                       !.passed = TRUE, !.err = "nil"]
                        /\ waitAt' = -1
           ELSE /\ UNCHANGED <<pkgType, bodyLen>>
                /\ waitAt' = -1
                /\ last' = [Broken(call) EXCEPT !.buf = buf, !.got = got, !.err = d.err]
        /\ UNCHANGED <<intSize, stream, bufSize, future, wire, sarg>>

\* ReadHeader(header); fresh: the caller passes a new, empty DubboHeader
ReadHeader(fresh) ==
    /\ pc = "idle"
    /\ LET hdr == IF fresh THEN EmptyHeader ELSE header
           call == [StartCall("ReadHeader") EXCEPT !.fresh = fresh]
       IN  IF stream
           THEN LET r == Read(rbuf, net, HEADER_LENGTH)
                IN  IF r.err # "nil"
                    THEN /\ last' = [Broken(call) EXCEPT !.err = r.err]
                         /\ header' = hdr
                         /\ UNCHANGED <<intSize, stream, pkgType, bodyLen, bufSize, rbuf, net,
                                        future, wire, pc, sbuf, sarg, waitAt>>
                    ELSE IF Len(r.data) < HEADER_LENGTH
                    THEN /\ pc' = "header"
                         /\ sbuf' = r.data
                         /\ rbuf' = r.rbuf
                         /\ net' = r.net
                         /\ header' = hdr
                         /\ last' = [call EXCEPT !.err = "pending"]
                         /\ UNCHANGED <<intSize, stream, pkgType, bodyLen, bufSize, future,
                                        wire, sarg, waitAt>>
                    ELSE FinishHeader(call, r.data, HEADER_LENGTH, hdr, r.rbuf, r.net)
           ELSE IF bufSize < HEADER_LENGTH
                THEN /\ last' = [Broken(call) EXCEPT !.err = "HeaderNotEnough"]
                     /\ header' = hdr
                     /\ UNCHANGED <<intSize, stream, pkgType, bodyLen, bufSize, rbuf, net,
                                    future, wire, pc, sbuf, sarg, waitAt>>
                ELSE LET p == Peek(rbuf, net, HEADER_LENGTH)
                     IN  IF p.err # "nil"
                         THEN /\ last' = [Broken(call) EXCEPT !.err = p.err]
                              /\ header' = hdr
                              /\ rbuf' = p.rbuf
                              /\ net' = p.net
                              /\ UNCHANGED <<intSize, stream, pkgType, bodyLen, bufSize,
                                             future, wire, pc, sbuf, sarg, waitAt>>
                         ELSE FinishHeader(call, p.data, HEADER_LENGTH, hdr,
                                           DiscardHeader(p.rbuf), p.net)

\* streaming ReadHeader after a short first read: the one further read,
\* whose byte count the code drops; what it did not fill stays zero
ReadHeaderRetry ==
    /\ pc = "header"
    /\ LET r == Read(rbuf, net, HEADER_LENGTH - Len(sbuf))
       IN  IF r.err # "nil"
           THEN /\ last' = [Broken(last) EXCEPT !.err = r.err]
                /\ pc' = "idle"
                /\ sbuf' = <<>>
                /\ UNCHANGED <<intSize, stream, pkgType, bodyLen, bufSize, rbuf, net, future,
                               wire, header, sarg, waitAt>>
           ELSE LET have == sbuf \o r.data
                IN  FinishHeader(last, have \o Zeros(HEADER_LENGTH - Len(have)),
                                 Len(have), header, r.rbuf, r.net)

\* BodyLoopContinues giving up after the first read that delivers bytes
BodyLoopSingleRead(readLen, len) == readLen = 0 /\ SmallLess(readLen, len)

\* the loop test of the streaming body read: readLen < h.bodyLen
BodyLoopContinues(readLen, len) == SmallLess(readLen, len)

\* RestOfBody handing the whole of buf to every read
RestOfBodyWholeBuffer(readLen, len) ==
    IF len[1] > 0 THEN bufSize + Len(wire) + 1 ELSE len[2]

\* len(buf[readLen:]) as far as a read can tell it apart
RestOfBody(readLen, len) ==
    IF len[1] > 0 THEN bufSize + Len(wire) + 1 ELSE len[2] - readLen

\* ReadBody from the switch on: dispatch the acquired body and return
FinishBody(call, buf, kind, rb, nt) ==
    LET d == Dispatch(buf, pkgType, kind)
    IN  /\ last' = [BodyDone(call) EXCEPT !.err = d.err, !.path = d.path, !.rsp = d.rsp,
                                !.buf = buf, !.got = Len(buf), !.passed = TRUE,
                                !.text = d.text]
        /\ waitAt' = -1
        /\ rbuf' = rb
        /\ net' = nt
        /\ pc' = "idle"
        /\ sbuf' = <<>>
        /\ sarg' = "nil"
        /\ UNCHANGED <<intSize, stream, pkgType, bodyLen, bufSize, future, wire, header>>

\* ReadBody or ReadAttachments returning before the switch with error err
FailBody(call, err, rb, nt) ==
    /\ last' = [Broken(call) EXCEPT !.err = err]
    /\ waitAt' = IF err = "BodyNotEnough" THEN waitAt ELSE -1
    /\ rbuf' = rb
    /\ net' = nt
    /\ pc' = "idle"
    /\ sbuf' = <<>>
    /\ sarg' = "nil"
    /\ UNCHANGED <<intSize, stream, pkgType, bodyLen, bufSize, future, wire, header>>

\* ReadBody(rspObj), kind telling what the caller passes as rspObj
ReadBody(kind) ==
    /\ pc = "idle"
    /\ LET call == StartCall("ReadBody")
       IN  IF stream
           THEN IF WideNeg(bodyLen)
                THEN FailBody(call, "panic", rbuf, net)
                ELSE IF BodyLoopContinues(0, bodyLen)
                THEN /\ pc' = "body"
                     /\ sbuf' = <<>>
                     /\ sarg' = kind
                     /\ last' = [call EXCEPT !.err = "pending"]
                     /\ UNCHANGED <<intSize, stream, pkgType, bodyLen, bufSize, rbuf, net,
                                    future, wire, header, waitAt>>
                ELSE FinishBody(call, <<>>, kind, rbuf, net)
           ELSE IF BodyShort(Buffered, bodyLen)
                THEN FailBody(call, "BodyNotEnough", rbuf, net)
                ELSE IF WideNeg(bodyLen)
                THEN FailBody(call, "ErrNegativeCount", rbuf, net)
                ELSE LET p == Peek(rbuf, net, SmallOf(bodyLen))
                     IN  IF p.err # "nil"
                         THEN FailBody(call, p.err, p.rbuf, p.net)
                         ELSE FinishBody(call, p.data, kind,
                                         DiscardBody(p.rbuf, SmallOf(bodyLen)), p.net)

\* one turn of the streaming loop of ReadBody: a read into buf[readLen:]
ReadBodyLoop ==
    /\ pc = "body"
    /\ LET r == Read(rbuf, net, RestOfBody(Len(sbuf), bodyLen))
       IN  IF r.err # "nil"
           THEN FailBody(last, r.err, r.rbuf, r.net)
           ELSE IF BodyLoopContinues(Len(sbuf) + Len(r.data), bodyLen)
           THEN /\ sbuf' = sbuf \o r.data
                /\ rbuf' = r.rbuf
                /\ net' = r.net
                /\ UNCHANGED <<intSize, stream, pkgType, bodyLen, bufSize, future, wire,
                               header, pc, sarg, waitAt, last>>
           ELSE FinishBody(last, sbuf \o r.data, sarg, r.rbuf, r.net)

\* ReadAttachments from the switch on: decode the attachments and return
FinishAttachments(call, buf, rb, nt) ==
    LET d == Attachments(buf, pkgType)
    IN  /\ last' = [BodyDone(call) EXCEPT !.err = d.err, !.path = d.path, !.buf = buf,
                                !.got = Len(buf), !.passed = TRUE, !.text = d.text]
        /\ waitAt' = -1
        /\ rbuf' = rb
        /\ net' = nt
        /\ pc' = "idle"
        /\ sbuf' = <<>>
        /\ sarg' = "nil"
        /\ UNCHANGED <<intSize, stream, pkgType, bodyLen, bufSize, future, wire, header>>

\* ReadAttachments()
ReadAttachments ==
    /\ pc = "idle"
    /\ LET call == StartCall("ReadAttachments")
       IN  IF stream
           THEN IF WideNeg(bodyLen)
                THEN FailBody(call, "panic", rbuf, net)
                ELSE IF BodyLoopContinues(0, bodyLen)
                THEN /\ pc' = "attachments"
                     /\ sbuf' = <<>>
                     /\ last' = [call EXCEPT !.err = "pending"]
                     /\ UNCHANGED <<intSize, stream, pkgType, bodyLen, bufSize, rbuf, net,
                                    future, wire, header, sarg, waitAt>>
                ELSE FinishAttachments(call, <<>>, rbuf, net)
           ELSE IF BodyShort(Buffered, bodyLen)
                THEN FailBody(call, "BodyNotEnough", rbuf, net)
                ELSE IF WideNeg(bodyLen)
                THEN FailBody(call, "ErrNegativeCount", rbuf, net)
                ELSE LET p == Peek(rbuf, net, SmallOf(bodyLen))
                     IN  IF p.err # "nil"
                         THEN FailBody(call, p.err, p.rbuf, p.net)
                         ELSE FinishAttachments(call, p.data,
                                                DiscardBody(p.rbuf, SmallOf(bodyLen)), p.net)

\* one turn of the streaming loop of ReadAttachments
ReadAttachmentsLoop ==
    /\ pc = "attachments"
    /\ LET r == Read(rbuf, net, RestOfBody(Len(sbuf), bodyLen))
       IN  IF r.err # "nil"
           THEN FailBody(last, r.err, r.rbuf, r.net)
           ELSE IF BodyLoopContinues(Len(sbuf) + Len(r.data), bodyLen)
           THEN /\ sbuf' = sbuf \o r.data
                /\ rbuf' = r.rbuf
                /\ net' = r.net
                /\ UNCHANGED <<intSize, stream, pkgType, bodyLen, bufSize, future, wire,
                               header, pc, sarg, waitAt, last>>
           ELSE FinishAttachments(last, sbuf \o r.data, r.rbuf, r.net)

\* Write(service, header, body) with header.Type = type and
\* header.ResponseStatus = status
Write(type, status) ==
    /\ pc = "idle"
    /\ LET packer == WriteSelect(type, status)
       IN  last' = [StartCall("Write") EXCEPT
                       !.packer = packer, !.arg = type, !.got = status,
                       !.err = IF packer = "none" THEN "Unrecognized" ELSE "nil"]
    /\ UNCHANGED <<intSize, stream, pkgType, bodyLen, bufSize, rbuf, net, future, wire,
                   header, pc, sbuf, sarg, waitAt>>

Next ==
    \/ Arrive
    \/ \E fresh \in BOOLEAN : ReadHeader(fresh)
    \/ ReadHeaderRetry
    \/ \E kind \in RspObjs : ReadBody(kind)
    \/ ReadBodyLoop
    \/ ReadAttachments
    \/ ReadAttachmentsLoop
    \/ Write(header.Type, header.ResponseStatus)

Spec == Init /\ [][Next]_vars

\* A call blocked in a read of the source goes on when the read returns,
\* and in the model every read returns: it delivers bytes or it fails.
SpecLive ==
    /\ Init
    /\ [][Next]_vars
    /\ WF_vars(ReadBodyLoop)
    /\ WF_vars(ReadAttachmentsLoop)

\* Write on its own, over every type value and three statuses
WriteStatuses == {Zero, Response_OK, 40}

InitWrite == Init /\ wire \in SlowWires

NextWrite == \E type \in 0..63, status \in WriteStatuses : Write(type, status)

SpecWrite == InitWrite /\ [][NextWrite]_vars

(* ====================================================================== *)
(*                               properties                               *)
(* ====================================================================== *)
HasBit(t, b) == (t \div b) % 2 = 1

\* the last call was a ReadHeader that got all 16 header bytes from the
\* source and went on to validate them
HeaderRead ==
    /\ last.op = "ReadHeader"
    /\ last.got = HEADER_LENGTH
    /\ last.err \in {"nil", "BodyNotEnough", "IllegalPackage", "SerialID"}

\* re-encoding of decoded fields, as the packers fill the header of 4.1
EncodeFlags(h) ==
    h.SerialID
    + (IF HasBit(h.Type, PackageHeartbeat) THEN FLAG_EVENT ELSE 0)
    + (IF HasBit(h.Type, PackageRequest) THEN FLAG_REQUEST ELSE 0)
    + (IF HasBit(h.Type, PackageRequest_TwoWay) THEN FLAG_TWOWAY ELSE 0)

EncodeInt64(id) ==
    LET top == IF id[1] < 0 THEN id[1] + 65536 ELSE id[1]
    IN  <<top \div 256, top % 256, id[2] \div 256, id[2] % 256,
          id[3] \div 256, id[3] % 256, id[4] \div 256, id[4] % 256>>

EncodeUint32(w) ==
    LET top == IF w[1] < 0 THEN w[1] + 65536 ELSE w[1]
    IN  <<top \div 256, top % 256, w[2] \div 256, w[2] % 256>>

\* the type the header bytes stand for, read off the flag and status bytes
ClaimedType(buf) ==
    (IF HasBit(buf[3], FLAG_EVENT) THEN PackageHeartbeat ELSE 0)
    + (IF HasBit(buf[3], FLAG_REQUEST)
       THEN PackageRequest
            + (IF HasBit(buf[3], FLAG_TWOWAY) THEN PackageRequest_TwoWay ELSE 0)
       ELSE PackageResponse
            + (IF buf[4] # Response_OK THEN PackageResponse_Exception ELSE 0))

\* a header with the right magic and a non-zero serialization id was read
\* into an empty DubboHeader
C1_Case ==
    /\ HeaderRead
    /\ last.fresh
    /\ last.buf[1] = MAGIC_HIGH
    /\ last.buf[2] = MAGIC_LOW
    /\ last.buf[3] % 32 # 0

\* what C1 says of every field but the status and the flag byte
C1_Fields ==
    /\ header.SerialID = last.buf[3] % 32
    /\ header.Type = ClaimedType(last.buf)
    /\ EncodeInt64(header.ID) = SubSeq(last.buf, 5, 12)
    /\ EncodeUint32(header.BodyLen) = SubSeq(last.buf, 13, 16)

\* C1 as stated: every field is populated from the bytes, ResponseStatus is
\* byte 3, and re-encoding the fields gives back the flag byte, the status,
\* the request id and the body length.
C1_AsStated ==
    C1_Case =>
        /\ C1_Fields
        /\ header.ResponseStatus = last.buf[4]
        /\ EncodeFlags(header) = last.buf[3]

\* C1 (amended): SerialID, Type, ID and BodyLen are populated from the bytes
\* and re-encode to them; ResponseStatus is byte 3 on a response frame and
\* stays zero on a request frame; the flag byte is reproduced except for the
\* two-way bit of a response frame, which no field records.
C1_HeaderRoundTrip ==
    C1_Case =>
        /\ C1_Fields
        /\ IF HasBit(last.buf[3], FLAG_REQUEST)
           THEN /\ header.ResponseStatus = 0
                /\ EncodeFlags(header) = last.buf[3]
           ELSE /\ header.ResponseStatus = last.buf[4]
                /\ EncodeFlags(header) =
                      last.buf[3] - (IF HasBit(last.buf[3], FLAG_TWOWAY)
                                     THEN FLAG_TWOWAY ELSE 0)

\* a two-way request with a negative request id and a body was decoded
C1_Witness ==
    /\ C1_Case
    /\ last.err = "nil"
    /\ header.Type = PackageRequest + PackageRequest_TwoWay
    /\ header.ID[1] < 0
    /\ header.BodyLen = WideOf(MaxBodyLen)

\* C2 as stated: a header whose byte 0 or byte 1 is not the magic byte is
\* refused as an illegal package, in either mode.
C2_MagicMismatchIllegal ==
    (HeaderRead /\ (last.buf[1] # MAGIC_HIGH \/ last.buf[2] # MAGIC_LOW))
        => last.err = "IllegalPackage"

(* ------------------------------ ReadBody ------------------------------ *)
\* the last call was a ReadBody that acquired the body and reached the switch
BodyDispatched == last.op = "ReadBody" /\ last.passed

\* the combinations of the dispatch, by the bits of the session's type that
\* the mask keeps: Error, Request, Response, Heartbeat, ResponseException
IsExceptionCombo(t) ==
    /\ HasBit(t, PackageResponse) /\ HasBit(t, PackageResponse_Exception)
    /\ ~HasBit(t, PackageRequest) /\ ~HasBit(t, PackageError)

IsHeartbeatCombo(t) ==
    /\ HasBit(t, PackageHeartbeat)
    /\ HasBit(t, PackageRequest) # HasBit(t, PackageResponse)
    /\ ~HasBit(t, PackageResponse_Exception) /\ ~HasBit(t, PackageError)

IsPlain(t, bit) ==
    \A b \in {PackageError, PackageRequest, PackageResponse, PackageHeartbeat,
              PackageResponse_Exception} : HasBit(t, b) <=> b = bit

ClaimedPath(t, kind) ==
    IF IsExceptionCombo(t) THEN "exception"
    ELSE IF IsHeartbeatCombo(t) THEN "none"
    ELSE IF IsPlain(t, PackageRequest) /\ kind # "nil" THEN "request"
    ELSE IF IsPlain(t, PackageResponse) /\ kind # "nil" THEN "response"
    ELSE "none"

\* C3: once the body is acquired, the decode path is chosen by whole
\* combinations of the masked type: the exception combinations decode the
\* exception; heartbeats and every unlisted value decode nothing and return
\* success; a request (two-way or not) or an OK response is decoded only
\* into a supplied slot, the response leaving no exception; no type with the
\* heartbeat or exception bit reaches the request or response decoder.
C3_DispatchByCombination ==
    BodyDispatched =>
        /\ last.path = ClaimedPath(pkgType, last.rsp.kind)
        /\ last.path = "none" => last.err = "nil" /\ last.rsp = NewRsp(last.rsp.kind)
        /\ (last.path = "request" /\ last.err = "nil") =>
               last.rsp.value = <<"args", last.buf>>
        /\ (last.path = "response" /\ last.err = "nil") =>
               last.rsp.value = <<"result", last.buf>> /\ last.rsp.exception = <<>>
        /\ (HasBit(pkgType, PackageHeartbeat) \/ HasBit(pkgType, PackageResponse_Exception))
               => last.path \notin {"request", "response"}

\* a two-way request was decoded into the slot, its two-way bit masked away
C3_Witness ==
    /\ BodyDispatched
    /\ pkgType = PackageRequest + PackageRequest_TwoWay
    /\ last.path = "request"
    /\ last.err = "nil"

WireAt(p, n) == SubSeq(wire, p + 1, p + n)

\* C5: in buffered mode a ReadHeader that passes validation records type and
\* body length, consumes the header only, and reports "body not enough"
\* when fewer than bodyLength bytes are buffered; a ReadBody with fewer than
\* bodyLength bytes buffered reports "body not enough" and consumes
\* nothing; a ReadBody with at least bodyLength bytes buffered gets past the
\* acquisition and consumes exactly the bodyLength bytes at the read
\* position, the body of the frame whose header was read there.
C5_BodyNotEnoughRetry ==
    /\ (last.op = "ReadHeader" /\ ~stream /\ last.passed) =>
          /\ pkgType = header.Type
          /\ bodyLen = header.BodyLen
          /\ EncodeUint32(header.BodyLen) = SubSeq(last.buf, 13, 16)
          /\ Pos = last.pos0 + HEADER_LENGTH
          /\ (last.err = "BodyNotEnough") <=> SmallLess(Buffered, bodyLen)
          /\ last.err = "BodyNotEnough" => waitAt = Pos
    /\ (last.op = "ReadBody" /\ ~stream /\ SmallLess(last.buffered0, bodyLen)) =>
          /\ last.err = "BodyNotEnough"
          /\ ~last.passed
          /\ Pos = last.pos0
          /\ Buffered = last.buffered0
    /\ (last.op = "ReadBody" /\ ~stream /\ ~SmallLess(last.buffered0, bodyLen)
          /\ ~WideNeg(bodyLen)) =>
          /\ last.passed
          /\ last.err \in {"nil", "decode", "JavaException", "panic"}
          /\ Pos = last.pos0 + SmallOf(bodyLen)
          /\ last.buf = WireAt(last.pos0, SmallOf(bodyLen))

\* a body that a header read had found not buffered was read by a later ReadBody
C5_Witness ==
    /\ last.op = "ReadBody"
    /\ ~stream
    /\ last.waited
    /\ last.err = "nil"
    /\ Len(last.buf) = MaxBodyLen
    /\ last.path = "request"

\* C6 as stated: in buffered mode, with fewer than 16 bytes available from
\* the source, ReadHeader fails with "header not enough" and consumes nothing.
C6_HeaderNotEnough ==
    (last.op = "ReadHeader" /\ ~stream /\ last.avail0 < HEADER_LENGTH)
        => last.err = "HeaderNotEnough" /\ Pos = last.pos0

\* C7 as stated: in buffered mode a ReadHeader that fails the validation
\* (illegal package, serialization id zero) has consumed nothing.
C7_AsStated ==
    (last.op = "ReadHeader" /\ ~stream /\ last.err \in {"IllegalPackage", "SerialID"})
        => Pos = last.pos0

\* C7 (amended): in buffered mode a ReadHeader that fails the validation has
\* already consumed the 16 header bytes, the discard coming before the
\* validation; only a ReadHeader that fails before the discard ("header not
\* enough", a failure of the source) leaves the read position unchanged.
C7_ValidationFailureConsumes ==
    /\ (last.op = "ReadHeader" /\ ~stream /\ last.err \in {"IllegalPackage", "SerialID"})
          => /\ Pos = last.pos0 + HEADER_LENGTH
             /\ last.buf = WireAt(last.pos0, HEADER_LENGTH)
    /\ (last.op = "ReadHeader" /\ ~stream /\ last.err \in {"HeaderNotEnough", "io"})
          => Pos = last.pos0

\* a buffered ReadHeader refused a header for its magic bytes
C7_Witness ==
    /\ last.op = "ReadHeader"
    /\ ~stream
    /\ last.err = "IllegalPackage"
    /\ last.buf[1] # MAGIC_HIGH

(* --------------------------- streaming mode --------------------------- *)
\* C8: in streaming mode ReadBody reaches the dispatch only with all
\* bodyLength bytes read, the dispatched buffer being the next bodyLength
\* bytes of the connection in order; while it is reading, and when a read
\* fails, nothing is decoded and the result container is not written.
C8_StreamBodyAssembled ==
    (stream /\ last.op = "ReadBody") =>
        /\ last.passed =>
              /\ Len(last.buf) = SmallOf(bodyLen)
              /\ last.buf = WireAt(last.pos0, SmallOf(bodyLen))
              /\ Pos = last.pos0 + SmallOf(bodyLen)
        /\ ~last.passed =>
              /\ last.err \in {"io", "pending"}
              /\ last.path = "none"
              /\ last.rsp = NoRsp
              /\ last.buf = <<>>
        /\ (pc = "body") <=> (last.err = "pending")

\* a body longer than what had arrived when ReadBody began was dispatched
C8_Witness ==
    /\ stream
    /\ BodyDispatched
    /\ Len(last.buf) > ChunkLen
    /\ last.avail0 < Len(last.buf)

\* C9 as stated: in streaming mode a ReadHeader that returns no read failure
\* has consumed exactly the 16 header bytes and decoded those.
C9_StreamHeaderComplete ==
    (stream /\ last.op = "ReadHeader" /\ last.err \notin {"io", "pending"})
        => /\ last.got = HEADER_LENGTH
           /\ Pos = last.pos0 + HEADER_LENGTH
           /\ last.buf = WireAt(last.pos0, HEADER_LENGTH)

(* -------------------------------- Write ------------------------------- *)
ClaimedPacker(type, status) ==
    CASE type = PackageHeartbeat /\ status = 0 -> "packRequest"
      [] type = PackageHeartbeat /\ status # 0 -> "packResponse"
      [] type = PackageRequest -> "packRequest"
      [] type = PackageRequest_TwoWay -> "packRequest"
      [] type = PackageResponse -> "packResponse"
      [] OTHER -> "none"

\* C10: Write picks the packer from the header type alone: Heartbeat goes to
\* packRequest with a zero response status and to packResponse otherwise,
\* Request and RequestTwoWay go to packRequest, Response to packResponse,
\* and every other type value gets the "unrecognized message type" error
\* naming the value, with no packer called.
C10_WriteDispatch ==
    last.op = "Write" =>
        /\ last.packer = ClaimedPacker(last.arg, last.got)
        /\ (last.err = "Unrecognized") <=> (last.packer = "none")
        /\ last.err \in {"nil", "Unrecognized"}

\* a heartbeat with a response status set went to packResponse
C10_Witness ==
    /\ last.op = "Write"
    /\ last.arg = PackageHeartbeat
    /\ last.got # 0
    /\ last.packer = "packResponse"

(* --------------------------- ReadAttachments -------------------------- *)
\* the last call was a ReadAttachments that acquired the body
AttachmentsDispatched == last.op = "ReadAttachments" /\ last.passed

\* C11: once the body is acquired, ReadAttachments returns the seventh
\* positional field of the decoded argument list when the masked type of the
\* session is a request (two-way or not), the attachment field of the
\* decoded response container when it is a response, and for every other
\* type, heartbeat and exception combinations included, an absent result
\* and no error, with no decoder called.
C11_AttachmentsByType ==
    AttachmentsDispatched =>
        IF IsPlain(pkgType, PackageRequest)
        THEN /\ last.path = "request"
             /\ last.err = "nil" =>
                   last.text = RequestFields(HessianDecodeWithSkip(last.buf).value)[7]
        ELSE IF IsPlain(pkgType, PackageResponse)
        THEN /\ last.path = "response"
             /\ last.err = "nil" =>
                   last.text = ResponseFields(HessianDecodeWithSkip(last.buf).value).Attachments
        ELSE /\ last.path = "none"
             /\ last.err = "nil"
             /\ last.text = <<>>

\* the attachments of a two-way request were returned
C11_Witness ==
    /\ AttachmentsDispatched
    /\ pkgType = PackageRequest + PackageRequest_TwoWay
    /\ last.err = "nil"
    /\ last.text = <<"attachments", last.buf>>
    /\ Len(last.buf) = MaxBodyLen

(* ------------------------- header validation -------------------------- *)
\* C12 as stated: ReadHeader refuses as an illegal package every header
\* whose body length field has the top bit set (2^31 or more, negative as a
\* signed 32-bit integer), so the BodyLen of a ReadHeader that passes the
\* validation is in 0..2^31-1.
C12_NegativeLengthIllegal ==
    /\ (/\ HeaderRead
        /\ last.buf[1] = MAGIC_HIGH
        /\ last.buf[2] = MAGIC_LOW
        /\ last.buf[3] % 32 # 0
        /\ last.buf[13] >= 128) => last.err = "IllegalPackage"
    /\ (last.op = "ReadHeader" /\ last.passed) => header.BodyLen[1] \in 0..32767

\* C13: ReadHeader fails for every header whose serialization id (the low
\* five bits of byte 2) is zero, whatever the other flag bits and fields are,
\* and records nothing of it on the session; a ReadHeader that returns
\* success or "body not enough" leaves a SerialID in 1..31, the low five
\* bits of the flag byte.
C13_ZeroSerialRefused ==
    /\ (HeaderRead /\ last.buf[3] % 32 = 0) =>
          /\ last.err \in {"SerialID", "IllegalPackage"}
          /\ ~last.passed
          /\ (last.buf[1] = MAGIC_HIGH \/ last.buf[2] = MAGIC_LOW) => last.err = "SerialID"
    /\ (last.op = "ReadHeader" /\ last.err \in {"nil", "BodyNotEnough"}) =>
          /\ header.SerialID \in 1..31
          /\ header.SerialID = last.buf[3] % 32

\* a two-way heartbeat request with serialization id zero was refused
C13_Witness ==
    /\ HeaderRead
    /\ last.buf[1] = MAGIC_HIGH
    /\ last.buf[2] = MAGIC_LOW
    /\ last.buf[3] = FLAG_REQUEST + FLAG_TWOWAY + FLAG_EVENT
    /\ last.err = "SerialID"
    /\ header.SerialID = 0

\* C14: on a session constructed in streaming mode no call of ReadHeader,
\* ReadBody or ReadAttachments returns "header not enough" or "body not
\* enough", whatever the source delivers.
C14_StreamNeverNotEnough ==
    stream => last.err \notin {"HeaderNotEnough", "BodyNotEnough"}

\* a streaming ReadHeader succeeded with less than the body buffered
C14_Witness ==
    /\ stream
    /\ last.op = "ReadHeader"
    /\ last.err = "nil"
    /\ last.got = HEADER_LENGTH
    /\ SmallLess(Buffered, bodyLen)
    /\ bodyLen = WideOf(MaxBodyLen)

(* --------------------------- frame alignment -------------------------- *)
\* the length field of the header that starts at position p of the
\* connection; a field of 2^16 or more reaches past every connection
FieldLen(p) ==
    IF wire[p + 13] # 0 \/ wire[p + 14] # 0 THEN Len(wire)
    ELSE wire[p + 15] * 256 + wire[p + 16]

\* where the frames of the connection start, from position p on
RECURSIVE FrameStartsFrom(_)
FrameStartsFrom(p) ==
    IF p + HEADER_LENGTH > Len(wire) THEN <<>>
    ELSE <<p>> \o FrameStartsFrom(p + HEADER_LENGTH + FieldLen(p))

FrameStarts == FrameStartsFrom(0)

\* the connection carries well-formed frames and nothing else
WellFormedWire ==
    /\ \A i \in 1..Len(FrameStarts) :
          LET p == FrameStarts[i]
          IN  /\ wire[p + 1] = MAGIC_HIGH
              /\ wire[p + 2] = MAGIC_LOW
              /\ wire[p + 3] % 32 # 0
              /\ p + HEADER_LENGTH + FieldLen(p) <= Len(wire)
    /\ FrameStarts # <<>>
    /\ LET p == FrameStarts[Len(FrameStarts)]
       IN  p + HEADER_LENGTH + FieldLen(p) = Len(wire)

\* where frame i + 1 starts, the end of the connection after the last frame
FrameEnd(i) == IF i < Len(FrameStarts) THEN FrameStarts[i + 1] ELSE Len(wire)

\* C15: on a connection of well-formed frames that are all at the source, in
\* either mode and for every package type, when each successful ReadHeader
\* is followed by a ReadBody or ReadAttachments that gets past the body
\* acquisition, the pair consumes exactly 16 + bodyLength bytes: the i-th
\* ReadHeader starts at the first byte of the i-th frame and decodes its
\* header, and the body read ends where the next frame starts.
C15_FrameAlignment ==
    (WellFormedWire /\ last.seq >= 0) =>
        /\ last.seq <= Len(FrameStarts)
        /\ last.mid => last.seq < Len(FrameStarts)
        /\ (last.mid /\ last.op = "ReadHeader") =>
              LET p == FrameStarts[last.seq + 1]
              IN  /\ last.pos0 = p
                  /\ last.buf = WireAt(p, HEADER_LENGTH)
                  /\ Pos = p + HEADER_LENGTH
                  /\ bodyLen = WideOf(FieldLen(p))
                  /\ header.BodyLen = bodyLen
        /\ (~last.mid /\ pc = "idle") => Pos = FrameEnd(last.seq)
        /\ (~last.mid /\ last.op \in {"ReadBody", "ReadAttachments"}) =>
              /\ last.passed
              /\ last.seq >= 1
              /\ last.pos0 = FrameStarts[last.seq] + HEADER_LENGTH
              /\ Pos = last.pos0 + SmallOf(bodyLen)
              /\ last.buf = WireAt(last.pos0, SmallOf(bodyLen))

\* two frames, the first a heartbeat with a body, were read one after the
\* other on a buffered session, the second by ReadAttachments
C15_Witness ==
    /\ WellFormedWire
    /\ ~stream
    /\ last.seq = 2
    /\ ~last.mid
    /\ last.op = "ReadAttachments"
    /\ HasBit(wire[3], FLAG_EVENT)
    /\ Pos = Len(wire)

(* ---------------------------- session state --------------------------- *)
\* the step is the return of a call
Returns == last' # last /\ last'.err # "pending"

\* C16: the recorded package type and body length change only in a
\* ReadHeader call that passes the header validation (it returns success or
\* "body not enough"), and become that header's type and body length;
\* ReadBody, ReadAttachments, Write (its unrecognized-type error included)
\* and every ReadHeader that fails leave both unchanged; the mode never
\* changes after construction.
C16_SessionFrame ==
    [][/\ stream' = stream
       /\ (pkgType' # pkgType \/ bodyLen' # bodyLen) =>
             /\ Returns
             /\ last'.op = "ReadHeader"
             /\ last'.err \in {"nil", "BodyNotEnough"}
       /\ (Returns /\ last'.op = "ReadHeader" /\ last'.err \in {"nil", "BodyNotEnough"}) =>
             /\ pkgType' = header'.Type
             /\ bodyLen' = header'.BodyLen
             /\ EncodeUint32(bodyLen') = SubSeq(last'.buf, 13, 16)
       /\ (Returns /\ ~(last'.op = "ReadHeader" /\ last'.err \in {"nil", "BodyNotEnough"})) =>
             /\ pkgType' = pkgType
             /\ bodyLen' = bodyLen
             /\ last'.op \in {"ReadHeader", "ReadBody", "ReadAttachments", "Write"}
      ]_vars

\* a ReadHeader that reported "body not enough" recorded a two-way request
\* and its body length, which no constructor had set
C16_Witness ==
    /\ last.op = "ReadHeader"
    /\ last.err = "BodyNotEnough"
    /\ pkgType = PackageRequest + PackageRequest_TwoWay
    /\ bodyLen = WideOf(MaxBodyLen)
    /\ header.Type = pkgType

(* ----------------------------- header reuse --------------------------- *)
\* C17 as stated: the Type, the ResponseStatus and the recorded type that a
\* ReadHeader produces depend on the 16 header bytes only, not on what the
\* DubboHeader held before the call, a header populated by an earlier frame
\* included: the type has exactly one of Request and Response, RequestTwoWay
\* only with Request and ResponseException only with Response.
C17_TypeFromBytesOnly ==
    (last.op = "ReadHeader" /\ last.err \in {"nil", "BodyNotEnough"}) =>
        /\ header.Type = ClaimedType(last.buf)
        /\ pkgType = ClaimedType(last.buf)
        /\ header.ResponseStatus =
              (IF HasBit(last.buf[3], FLAG_REQUEST) THEN 0 ELSE last.buf[4])
        /\ HasBit(pkgType, PackageRequest) # HasBit(pkgType, PackageResponse)
        /\ HasBit(pkgType, PackageRequest_TwoWay) => HasBit(pkgType, PackageRequest)
        /\ HasBit(pkgType, PackageResponse_Exception) => HasBit(pkgType, PackageResponse)

(* ------------------------- read/write compatibility ------------------- *)
\* the types ReadHeader gives the non-exception frames: request, two-way
\* request, heartbeat request, heartbeat response, OK response
NonExceptionType(t) ==
    /\ HasBit(t, PackageRequest) # HasBit(t, PackageResponse)
    /\ HasBit(t, PackageRequest_TwoWay) => HasBit(t, PackageRequest)
    /\ ~HasBit(t, PackageResponse_Exception)
    /\ ~HasBit(t, PackageError)

\* C18 as stated: a header that ReadHeader populated from a non-exception
\* frame is accepted by Write when passed to it unchanged: Write selects
\* packRequest for the request-side types and packResponse for the
\* response-side types, and never answers "unrecognized message type".
C18_ReadTypesWritable ==
    (/\ last.op = "Write"
     /\ header.SerialID # 0
     /\ last.arg = header.Type
     /\ last.got = header.ResponseStatus
     /\ NonExceptionType(header.Type)) =>
        /\ last.err = "nil"
        /\ last.packer = IF HasBit(header.Type, PackageRequest)
                         THEN "packRequest" ELSE "packResponse"

(* ------------------------ streaming termination ----------------------- *)
InBodyLoop == pc \in {"body", "attachments"}

\* the step is a turn of the streaming loop of ReadBody or ReadAttachments
LoopTurn == InBodyLoop /\ (pc' # pc \/ sbuf' # sbuf \/ last' # last)

\* the step is a streaming ReadBody or ReadAttachments being called
BodyCall ==
    /\ stream
    /\ pc = "idle"
    /\ last' # last
    /\ last'.op \in {"ReadBody", "ReadAttachments"}

\* what C19 says of a single step
C19_Step ==
    /\ (LoopTurn /\ bodyLen[1] = 0) =>
          LET missing == SmallOf(bodyLen) - Len(sbuf)
              consumed == Pos' - Pos
          IN  /\ missing > 0
              /\ consumed <= missing
              /\ (rbuf = <<>> /\ net = <<>>) <=> (pc' = "idle" /\ last'.err = "io")
              /\ (pc' = "idle" /\ last'.err = "io") => (~last'.passed /\ consumed = 0)
              /\ (pc' = "idle" /\ last'.err # "io") =>
                    /\ last'.passed
                    /\ consumed = missing
                    /\ Len(last'.buf) = SmallOf(bodyLen)
                    /\ last'.buf = WireAt(last'.pos0, SmallOf(bodyLen))
              /\ pc' # "idle" =>
                    /\ pc' = pc
                    /\ consumed \in 1..(missing - 1)
                    /\ Len(sbuf') = Len(sbuf) + consumed
    /\ (BodyCall /\ bodyLen = WideOf(0)) =>
          /\ pc' = "idle"
          /\ last'.passed
          /\ rbuf' = rbuf
          /\ net' = net
    /\ (BodyCall /\ bodyLen # WideOf(0)) =>
          /\ pc' = (IF last'.op = "ReadBody" THEN "body" ELSE "attachments")
          /\ Pos' = Pos

\* C19: in streaming mode ReadBody and ReadAttachments eventually return,
\* every read of the source delivering at least one byte or failing: they
\* succeed only once bodyLength bytes are read, return the failure of the
\* source as soon as it fails, never ask a read for more than the bytes
\* still missing from the body, and return without reading when bodyLength
\* is 0.
C19_StreamBodyTerminates ==
    /\ [][C19_Step]_vars
    /\ InBodyLoop ~> (pc = "idle")

\* a ReadAttachments returned a body longer than what had arrived when it
\* was called
C19_Witness ==
    /\ stream
    /\ AttachmentsDispatched
    /\ Len(last.buf) > ChunkLen
    /\ last.avail0 < Len(last.buf)
    /\ last.err = "nil"

====
